---- MODULE Spec2Model ----
(***************************************************************************)
(* State-machine model of the eMandate service: the synchronous API        *)
(* handlers (app/api/v1/endpoints), the Celery tasks (app/tasks), the       *)
(* database services (app/services/database_service.py), the gateway       *)
(* client factory (app/services/razorpay_service.py) and the tables of     *)
(* app/models/models.py.                                                    *)
(*                                                                         *)
(* Modelling conventions                                                   *)
(*  - a table is a sequence of rows; a row's primary key is its index.     *)
(*  - request bodies, task arguments and webhook payloads are records.  An *)
(*    argument handed to a service is tagged as a schema object or a dict: *)
(*    the services read their argument by attribute access, which a schema *)
(*    object answers and a dict answers with AttributeError.               *)
(*  - the statuses are the members of the models' enums; what SQLAlchemy's *)
(*    Enum type does with a member of the schemas' str-enums is not part   *)
(*    of the sources and an assignment is modelled as the assignment.      *)
(*  - a handler or one execution of a task is one atomic step; the inputs  *)
(*    that decide its outcome (gateway failure, database fault) are        *)
(*    existentially quantified.  SpecConcurrent splits an execution of the *)
(*    webhook apply task at its check of webhook.processed.                *)
(*  - SpecApply and SpecAuthorized start from tables that already hold a   *)
(*    Payment with a gateway id, or an authorized Mandate: the rows the    *)
(*    apply functions and the mandate operations are written for.  The     *)
(*    other specifications start from empty tables.                        *)
(*  - Celery's Task.retry with max_retries = 3 re-enqueues the task while  *)
(*    request.retries < max_retries and otherwise re-raises the error.     *)
(*  - Numeric(10,2) values are held in hundredths, so x paise / 100 is the *)
(*    Numeric value held as x.                                             *)
(***************************************************************************)
EXTENDS Integers, Sequences, FiniteSets, TLC

\* ------------------------------------------------------------------ bounds
\* rows of table mandates
MaxMandates == 1
\* Celery tasks enqueued in total
MaxTasks == 2
\* rows of table orders
MaxOrders == 2
\* rows of table payments
MaxPayments == 1

\* ------------------------------------------------------- program constants
\* retry_kwargs={'max_retries': 3, ...}; also Celery's Task.max_retries default
MaxRetries == 3

\* a NULL column / a None value of a numeric field
NULL == -1
\* a NULL identifier column (razorpay_*_id), an absent entity.id
NullId == <<"null", 0>>
\* a NULL processing_error / error_code
NoError == "none"
\* no amount has been converted yet
NoConversion == [op |-> "none"]

MandateStatus == {"created", "authorized", "confirmed", "paused", "cancelled", "expired"}
PaymentStatus == {"created", "authorized", "captured", "refunded", "failed"}

\* mandate / payment / order amounts used by the requests
Amounts == {1, 2}

\* the n of the payment ids f"pay_mock_{n}" that webhook bodies name
EntityNumbers == {1}

\* gateway identifiers: f"pay_mock_{n}", f"order_mock_{n}" / the gateway's order id
PayId(n) == <<"pay", n>>
OrderId(n) == <<"order", n>>
MandateMockId(n) == <<"mandate", n>>

VARIABLES
    use_mock,        \* settings.environment == "development" or settings.debug
    customers,       \* table customers
    mandates,        \* table mandates
    orders,          \* table orders
    payments,        \* table payments
    webhook_events,  \* table webhook_events
    tasks,           \* every Celery task ever enqueued, with its retry state
    inflight,        \* executions of the apply task that have read their event
    response,        \* the last HTTP response, with the request it answers
    conversion       \* the last amount converted, with the result of the conversion

vars == <<use_mock, customers, mandates, orders, payments,
          webhook_events, tasks, inflight, response, conversion>>

db == <<customers, mandates, orders, payments, webhook_events>>

\* ------------------------------------------------------------ webhook input
\* The entity of a webhook body: its id (or none), and the fields the apply
\* functions read.  fee / tax are paise, or None.
EntityIds == {PayId(n) : n \in EntityNumbers} \cup {OrderId(1)}

Payloads ==
    {[event |-> "payment.authorized", entity_id |-> e, fee |-> 0, tax |-> 0, error_code |-> NoError]
        : e \in {PayId(n) : n \in EntityNumbers} \cup {NullId}}
    \cup
    {[event |-> "payment.captured", entity_id |-> PayId(n), fee |-> ft[1], tax |-> ft[2], error_code |-> NoError]
        : n \in EntityNumbers, ft \in {<<1000, 200>>, <<1000, NULL>>}}
    \cup
    {[event |-> "payment.failed", entity_id |-> PayId(n), fee |-> 0, tax |-> 0, error_code |-> "BAD_REQUEST_ERROR"]
        : n \in EntityNumbers}
    \cup
    {[event |-> "order.paid", entity_id |-> OrderId(1), fee |-> 0, tax |-> 0, error_code |-> NoError]}
    \cup
    {[event |-> "refund.processed", entity_id |-> PayId(1), fee |-> 0, tax |-> 0, error_code |-> NoError]}

\* webhooks.py:55  payload.get("entity", {}).get("id", f"unknown_{created_at}")
\* (every modelled body carries the same created_at)
EventIdOf(payload) ==
    IF payload.entity_id = NullId THEN <<"unknown", 0>> ELSE payload.entity_id

\* ------------------------------------------------------------------- tasks
\* A task as enqueued.  applied counts the executions of the task that wrote
\* its effect: the target row of a webhook event, the Order of an eMandate task.
NewTask(kind, mandate_id, amount, webhook_id) ==
    [kind |-> kind, mandate_id |-> mandate_id, amount |-> amount,
     webhook_id |-> webhook_id, retries |-> 0, state |-> "queued",
     executions |-> 0, errs |-> {}, applied |-> 0]

\* the task returned normally
Succeed(task) ==
    [task EXCEPT !.state = "success", !.executions = @ + 1]

\* self.retry as it would be without a bound on the retries
RetryOrFail_Unbounded(task, err) == [task EXCEPT !.errs = @ \cup {err}]

\* raise self.retry(exc=e): Retry while request.retries < max_retries, else exc
RetryOrFail(task, err) ==
    IF task.retries < MaxRetries
    THEN [task EXCEPT !.retries = @ + 1, !.executions = @ + 1, !.errs = @ \cup {err}]
    ELSE [task EXCEPT !.state = "failure", !.executions = @ + 1, !.errs = @ \cup {err}]

\* a plain raise (no retry): the task ends in FAILURE
Fail(task, err) ==
    [task EXCEPT !.state = "failure", !.executions = @ + 1, !.errs = @ \cup {err}]

Queued(t) == t \in DOMAIN tasks /\ tasks[t].state = "queued"

Init ==
    /\ use_mock \in BOOLEAN
    /\ customers = <<>>
    /\ mandates = <<>>
    /\ orders = <<>>
    /\ payments = <<>>
    /\ webhook_events = <<>>
    /\ tasks = <<>>
    /\ inflight = {}
    /\ response = [op |-> "none", code |-> 0]
    /\ conversion = NoConversion


\* --------------------------------------------------------- webhook endpoint
\* settings.razorpay_webhook_secret
WebhookSecret == "your_webhook_secret"

\* hmac.new(secret, body, sha256).hexdigest(): a digest is determined by the
\* key and the body, and digests of different keys or bodies differ
Hmac(secret, body) == <<"hmac", secret, body>>

\* the handler as it would be if every signature were accepted
validate_webhook_signature_Any(body, signature, secret) == TRUE

\* helpers.py validate_webhook_signature: compare_digest(signature, expected)
validate_webhook_signature(body, signature, secret) ==
    signature = Hmac(secret, body)

\* the required top-level field a body lacks, if any
MissingFields == {"event", "account_id", "entity"}

\* The requests a caller sends: every body, complete and signed with the
\* webhook secret; and, since a rejected body is never read further, one body
\* signed with another key and one body per missing required field.
SomePayload == CHOOSE p \in Payloads : p.event = "payment.failed"

WebhookRequests ==
    {[payload |-> p, missing |-> "none", signature |-> Hmac(WebhookSecret, p)] : p \in Payloads}
    \cup {[payload |-> SomePayload, missing |-> f,
           signature |-> Hmac("not_the_secret", SomePayload)] : f \in {"none", "entity"}}
    \cup {[payload |-> SomePayload, missing |-> f,
           signature |-> Hmac(WebhookSecret, SomePayload)] : f \in MissingFields}

\* the body as the handler sees it without the check of required_fields
HasRequiredFields_Unchecked(missing) == TRUE

\* all(field in payload for field in ["event", "account_id", "entity"])
HasRequiredFields(missing) == missing = "none"

\* the table as it would be without unique=True on event_id
EventIdTaken_NoConstraint(eid) == FALSE

\* webhook_events.event_id is unique=True: an INSERT of a taken id fails
EventIdTaken(eid) ==
    \E w \in DOMAIN webhook_events : webhook_events[w].event_id = eid

\* WebhookService.create_webhook_event: the row as inserted
NewWebhookEvent(payload) ==
    [event_id |-> EventIdOf(payload), event_type |-> payload.event,
     payload |-> payload, processed |-> FALSE, processing_error |-> NoError]

\* POST /webhooks/razorpay
handle_razorpay_webhook(payload, missing, signature) ==
    LET req == [payload |-> payload, missing |-> missing, signature |-> signature] IN
    IF ~validate_webhook_signature(payload, signature, WebhookSecret)
    THEN /\ response' = [op |-> "webhook", code |-> 401, req |-> req]
         /\ UNCHANGED <<use_mock, conversion, db, tasks, inflight>>
    ELSE IF ~HasRequiredFields(missing)
    THEN /\ response' = [op |-> "webhook", code |-> 400, req |-> req]
         /\ UNCHANGED <<use_mock, conversion, db, tasks, inflight>>
    ELSE IF EventIdTaken(EventIdOf(payload))
    THEN \* IntegrityError in create_webhook_event: rollback, re-raised, 500
         /\ response' = [op |-> "webhook", code |-> 500, req |-> req]
         /\ UNCHANGED <<use_mock, conversion, db, tasks, inflight>>
    ELSE /\ Len(tasks) < MaxTasks
         /\ webhook_events' = Append(webhook_events, NewWebhookEvent(payload))
         /\ tasks' = Append(tasks, NewTask("webhook", 0, 0, Len(webhook_events) + 1))
         /\ response' = [op |-> "webhook", code |-> 200, req |-> req]
         /\ UNCHANGED <<use_mock, conversion, customers, mandates, orders, payments, inflight>>


\* ------------------------------------------------------ webhook apply task
\* db.query(Payment).filter(razorpay_payment_id == id).first(): row index or 0
FindPayment(rpid) ==
    IF \E p \in DOMAIN payments : payments[p].razorpay_payment_id = rpid
    THEN CHOOSE p \in DOMAIN payments : payments[p].razorpay_payment_id = rpid
    ELSE 0

FindOrder(roid) ==
    IF \E o \in DOMAIN orders : orders[o].razorpay_order_id = roid
    THEN CHOOSE o \in DOMAIN orders : orders[o].razorpay_order_id = roid
    ELSE 0

\* What an apply function leaves in the session: the rows as assigned so far,
\* whether it found its target row and whether it raised.  The session's
\* pending assignments are written by the next commit of that session, the one
\* in mark_webhook_processed included.
Applied(ps, os, found, raised) ==
    [payments |-> ps, orders |-> os, found |-> found, raised |-> raised]

process_payment_authorized(payload) ==
    LET p == FindPayment(payload.entity_id) IN
    IF payload.entity_id = NullId \/ p = 0
    THEN Applied(payments, orders, FALSE, FALSE)
    ELSE Applied([payments EXCEPT ![p].status = "authorized"], orders, TRUE, FALSE)

process_payment_captured(payload) ==
    LET p == FindPayment(payload.entity_id) IN
    IF payload.entity_id = NullId \/ p = 0
    THEN Applied(payments, orders, FALSE, FALSE)
    ELSE IF payload.fee = NULL
    THEN \* None / 100 raises TypeError after status was assigned
         Applied([payments EXCEPT ![p].status = "captured"], orders, TRUE, TRUE)
    ELSE IF payload.tax = NULL
    THEN Applied([payments EXCEPT ![p].status = "captured", ![p].fee = payload.fee],
                 orders, TRUE, TRUE)
    ELSE Applied([payments EXCEPT ![p].status = "captured", ![p].fee = payload.fee,
                                  ![p].tax = payload.tax], orders, TRUE, FALSE)

process_payment_failed(payload) ==
    LET p == FindPayment(payload.entity_id) IN
    IF payload.entity_id = NullId \/ p = 0
    THEN Applied(payments, orders, FALSE, FALSE)
    ELSE Applied([payments EXCEPT ![p].status = "failed",
                                  ![p].error_code = payload.error_code],
                 orders, TRUE, FALSE)

\* process_order_paid as it would be if a missing Order were an error
process_order_paid_Raising(payload) ==
    LET o == FindOrder(payload.entity_id) IN
    IF payload.entity_id = NullId \/ o = 0
    THEN Applied(payments, orders, FALSE, TRUE)
    ELSE Applied(payments, [orders EXCEPT ![o].status = "paid"], TRUE, FALSE)

\* the dispatch as it would be if order.paid had no apply function
process_order_paid_Ignored(payload) == Applied(payments, orders, FALSE, FALSE)

process_order_paid(payload) ==
    LET o == FindOrder(payload.entity_id) IN
    IF payload.entity_id = NullId \/ o = 0
    THEN Applied(payments, orders, FALSE, FALSE)
    ELSE Applied(payments, [orders EXCEPT ![o].status = "paid"], TRUE, FALSE)

\* the dispatch as it would be if every other event type refunded its Payment
Dispatch_RefundApplied(event_type, payload) ==
    LET p == FindPayment(payload.entity_id) IN
    IF p = 0 THEN Applied(payments, orders, FALSE, FALSE)
    ELSE Applied([payments EXCEPT ![p].status = "refunded"], orders, TRUE, FALSE)

\* the event types process_webhook_event has a branch for
RecognizedEvents == {"payment.authorized", "payment.captured", "payment.failed", "order.paid"}

\* process_webhook_event, the dispatch by event_type
Dispatch(event_type, payload) ==
    CASE event_type = "payment.authorized" -> process_payment_authorized(payload)
      [] event_type = "payment.captured" -> process_payment_captured(payload)
      [] event_type = "payment.failed" -> process_payment_failed(payload)
      [] event_type = "order.paid" -> process_order_paid(payload)
      [] OTHER -> Applied(payments, orders, FALSE, FALSE)

\* the apply task as it would be without the check of webhook.processed
AlreadyProcessed_NoShortCircuit(w) == FALSE

\* process_webhook_event: if webhook.processed: return "already_processed"
AlreadyProcessed(w) == webhook_events[w].processed

\* WebhookService.mark_webhook_processed(webhook_id, error)
mark_webhook_processed(w, error) ==
    [webhook_events EXCEPT ![w].processed = TRUE, ![w].processing_error = error]

\* the faults one execution of the apply task can meet: none, or an error
\* raised inside the try block before anything was assigned (a query of the
\* apply functions failing)
ApplyFaults == {"none", "apply"}

\* process_webhook_event from the dispatch to its return or its except branch:
\* the rows and the task as this part of an execution leaves them
ApplyAndMark(t, fault) ==
    LET task == tasks[t]
        w == task.webhook_id
        r == Dispatch(webhook_events[w].event_type, webhook_events[w].payload)
        done == [task EXCEPT !.applied = IF r.found THEN @ + 1 ELSE @]
    IN
    IF fault = "apply"
    THEN /\ webhook_events' = mark_webhook_processed(w, "error")
         /\ tasks' = [tasks EXCEPT ![t] = RetryOrFail(task, "transient")]
         /\ UNCHANGED <<payments, orders>>
    ELSE IF r.raised
    THEN /\ payments' = r.payments
         /\ orders' = r.orders
         /\ webhook_events' = mark_webhook_processed(w, "error")
         /\ tasks' = [tasks EXCEPT ![t] = RetryOrFail(done, "nontransient")]
    ELSE /\ payments' = r.payments
         /\ orders' = r.orders
         /\ webhook_events' = mark_webhook_processed(w, NoError)
         /\ tasks' = [tasks EXCEPT ![t] = Succeed(done)]

\* one execution of process_webhook_event(webhook_id) that no other execution
\* for the same event overlaps
process_webhook_event(t, fault) ==
    /\ Queued(t)
    /\ tasks[t].kind = "webhook"
    /\ inflight = {}
    /\ IF AlreadyProcessed(tasks[t].webhook_id)
       THEN /\ tasks' = [tasks EXCEPT ![t] = Succeed(tasks[t])]
            /\ UNCHANGED <<payments, orders, webhook_events>>
       ELSE ApplyAndMark(t, fault)
    /\ UNCHANGED <<use_mock, conversion, customers, mandates, inflight, response>>

\* the workers of the pool that may hold the same message
Workers == {1, 2}

\* At-least-once delivery: the message of a task is handed to a worker while
\* the task is queued, and again to another worker while an execution that
\* has not returned is under way.
Deliverable(t, worker) ==
    /\ Queued(t)
    /\ \A x \in inflight : ~(x.task = t /\ x.worker = worker)

\* process_webhook_event up to the check of webhook.processed (lines 29-35),
\* run by one worker: the event is read, and the execution goes on only if
\* the row read is not processed
process_webhook_event_read(t, worker) ==
    /\ t \in DOMAIN tasks
    /\ tasks[t].kind = "webhook"
    /\ Deliverable(t, worker)
    /\ IF AlreadyProcessed(tasks[t].webhook_id)
       THEN /\ tasks' = [tasks EXCEPT ![t] = Succeed(tasks[t])]
            /\ UNCHANGED inflight
       ELSE /\ inflight' = inflight \cup {[task |-> t, worker |-> worker]}
            /\ UNCHANGED tasks
    /\ UNCHANGED <<use_mock, conversion, db, response>>

\* the rest of that execution (lines 37-58): dispatch, mark processed, return
process_webhook_event_apply(t, worker) ==
    /\ [task |-> t, worker |-> worker] \in inflight
    /\ ApplyAndMark(t, "none")
    /\ inflight' = inflight \ {[task |-> t, worker |-> worker]}
    /\ UNCHANGED <<use_mock, conversion, customers, mandates, response>>


\* ------------------------------------------------------- service arguments
\* A service is handed either an object of a pydantic schema or a dict.
Schema(fields) == [is_dict |-> FALSE, fields |-> fields]
Dict(fields) == [is_dict |-> TRUE, fields |-> fields]

\* the services as they would be if they read a dict by subscript
HasAttributes_Subscripted(arg) == TRUE

\* The services read their argument by attribute access (mandate_data.customer_id,
\* order_data.amount, payment_data.customer_id): a dict raises AttributeError.
HasAttributes(arg) == ~arg.is_dict

\* ------------------------------------------------------------ gateway client
\* get_razorpay_client() builds a new client on every call, so a
\* MockRazorpayClient always starts from empty mock_data and names its first
\* order f"order_mock_{0 + 1}"; the real gateway names every order afresh.
GatewayOrderId == IF use_mock THEN OrderId(1) ELSE OrderId(Len(orders) + 1)

GatewayCustomerId == IF use_mock THEN <<"cust", 1>> ELSE <<"cust", Len(customers) + 1>>

\* orders.razorpay_order_id is unique=True
OrderIdTaken(roid) ==
    \E o \in DOMAIN orders : orders[o].razorpay_order_id = roid

\* only the real client's _make_request can raise
GatewayFaults == IF use_mock THEN {FALSE} ELSE BOOLEAN

\* PaymentService.create_order(order_data): "attribute" when order_data is a
\* dict (AttributeError at order_data.amount, before the gateway is called),
\* "gateway" when the gateway call raises, "integrity" when the INSERT violates
\* the unique razorpay_order_id; each of these is rolled back and re-raised.
\* Else "ok": the row is committed.
CreateOrderOutcome(order_data, gw_fail) ==
    IF ~HasAttributes(order_data) THEN "attribute"
    ELSE IF gw_fail THEN "gateway"
    ELSE IF OrderIdTaken(GatewayOrderId) THEN "integrity"
    ELSE "ok"

NewOrder(order_data) ==
    [razorpay_order_id |-> GatewayOrderId, customer_id |-> order_data.fields.customer_id,
     amount |-> order_data.fields.amount, status |-> "created"]

\* PaymentService.create_payment(payment_data): "attribute" for a dict, else "ok"
CreatePaymentOutcome(payment_data) ==
    IF ~HasAttributes(payment_data) THEN "attribute" ELSE "ok"

\* PaymentService.create_payment: the row as inserted (status default CREATED)
NewPayment(payment_data) ==
    [razorpay_payment_id |-> NullId, razorpay_order_id |-> NullId,
     customer_id |-> payment_data.fields.customer_id,
     mandate_id |-> payment_data.fields.mandate_id,
     amount |-> payment_data.fields.amount,
     status |-> "created", transaction_type |-> "recurring_payment",
     fee |-> NULL, tax |-> NULL, error_code |-> NoError]

\* MandateService.create_mandate as it would be without the customer lookup
CreateMandateOutcome_NoLookup(mandate_data) ==
    IF ~HasAttributes(mandate_data) THEN "attribute" ELSE "ok"

\* MandateService.create_mandate(mandate_data): "attribute" for a dict,
\* "value" for ValueError("Customer not found"), else "ok"
CreateMandateOutcome(mandate_data) ==
    IF ~HasAttributes(mandate_data) THEN "attribute"
    ELSE IF mandate_data.fields.customer_id \notin DOMAIN customers THEN "value"
    ELSE "ok"

\* MandateService.create_mandate: the row as inserted (status default CREATED)
NewMandate(mandate_data) ==
    [customer_id |-> mandate_data.fields.customer_id,
     amount |-> mandate_data.fields.amount, status |-> "created",
     razorpay_mandate_id |-> NullId]

\* ------------------------------------------------------- customer endpoints
\* customers.email is unique=True, so the e-mail addresses in use bound the table
Emails == {"a@example.com", "b@example.com"}

\* POST /customers: CustomerService.create_customer
create_customer(email, gw_fail) ==
    /\ IF gw_fail
       THEN /\ response' = [op |-> "create_customer", code |-> 500]
            /\ UNCHANGED customers
       ELSE IF \/ \E c \in DOMAIN customers : customers[c].email = email
               \/ \E c \in DOMAIN customers :
                     customers[c].razorpay_customer_id = GatewayCustomerId
       THEN \* IntegrityError -> ValueError -> 400
            /\ response' = [op |-> "create_customer", code |-> 400]
            /\ UNCHANGED customers
       ELSE /\ customers' = Append(customers,
                   [razorpay_customer_id |-> GatewayCustomerId, email |-> email])
            /\ response' = [op |-> "create_customer", code |-> 201]
    /\ UNCHANGED <<use_mock, conversion, mandates, orders, payments, webhook_events, tasks, inflight>>

\* ------------------------------------------------------- mandate endpoints
\* customer ids a request may name: the existing ones and one that is not
CustomerIds == 1..(Cardinality(Emails) + 1)
MandateIds == 1..(MaxMandates + 1)

\* POST /mandates: the body is a MandateCreate
create_mandate(customer_id, amount) ==
    LET mandate_data == Schema([customer_id |-> customer_id, amount |-> amount]) IN
    /\ IF CreateMandateOutcome(mandate_data) = "value"
       THEN /\ response' = [op |-> "create_mandate", code |-> 400]
            /\ UNCHANGED mandates
       ELSE IF CreateMandateOutcome(mandate_data) # "ok"
       THEN /\ response' = [op |-> "create_mandate", code |-> 500]
            /\ UNCHANGED mandates
       ELSE /\ Len(mandates) < MaxMandates
            /\ mandates' = Append(mandates, NewMandate(mandate_data))
            /\ response' = [op |-> "create_mandate", code |-> 201]
    /\ UNCHANGED <<use_mock, conversion, customers, orders, payments, webhook_events, tasks, inflight>>

\* the fields a MandateUpdate body may set: status and amount, each optional
Unset == "unset"
UpdateStatuses == MandateStatus \cup {Unset}
UpdateAmounts == Amounts \cup {NULL}

\* the update as it would be if a MandateUpdate carried razorpay_mandate_id
UpdatedMandate_WithGatewayId(mandate, status, amount) ==
    [mandate EXCEPT !.status = IF status = Unset THEN @ ELSE status,
                    !.amount = IF amount = NULL THEN @ ELSE amount,
                    !.razorpay_mandate_id = MandateMockId(0)]

\* MandateService.update_mandate: setattr of every field the body sets
UpdatedMandate(mandate, status, amount) ==
    [mandate EXCEPT !.status = IF status = Unset THEN @ ELSE status,
                    !.amount = IF amount = NULL THEN @ ELSE amount]

\* PUT /mandates/{mandate_id}
update_mandate(mandate_id, status, amount) ==
    /\ IF mandate_id \notin DOMAIN mandates
       THEN /\ response' = [op |-> "update_mandate", code |-> 404]
            /\ UNCHANGED mandates
       ELSE /\ mandates' = [mandates EXCEPT
                   ![mandate_id] = UpdatedMandate(@, status, amount)]
            /\ response' = [op |-> "update_mandate", code |-> 200]
    /\ UNCHANGED <<use_mock, conversion, customers, orders, payments, webhook_events, tasks, inflight>>


\* ------------------------------------------------------ emandate endpoints
\* POST /emandate/authorize: the handler builds mandate_data as a dict and
\* hands it to MandateService.create_mandate
authorize_emandate(customer_id, amount) ==
    LET req == [customer_id |-> customer_id, amount |-> amount]
        mandate_data == Dict(req)
    IN
    /\ IF customer_id \notin DOMAIN customers
       THEN /\ response' = [op |-> "authorize", code |-> 404, req |-> req]
            /\ UNCHANGED <<mandates, tasks>>
       ELSE IF CreateMandateOutcome(mandate_data) # "ok"
       THEN \* rolled back and re-raised, answered by `except Exception`
            /\ response' = [op |-> "authorize", code |-> 500, req |-> req]
            /\ UNCHANGED <<mandates, tasks>>
       ELSE /\ Len(mandates) < MaxMandates
            /\ Len(tasks) < MaxTasks
            /\ mandates' = Append(mandates, NewMandate(mandate_data))
            /\ tasks' = Append(tasks, NewTask("authorize", Len(mandates) + 1, amount, 0))
            /\ response' = [op |-> "authorize", code |-> 202, req |-> req]
    /\ UNCHANGED <<use_mock, conversion, customers, orders, payments, webhook_events, inflight>>

\* the mandate statuses create_recurring_payment accepts
ActiveForPayments == {"authorized", "confirmed"}

\* the handler as it would be without the comparison with mandate.amount
ExceedsLimit_Unchecked(amount, mandate) == FALSE

\* create_recurring_payment: request_data.amount > mandate.amount
ExceedsLimit(amount, mandate) == amount > mandate.amount

\* the handler as it would be without the check of mandate.status
InactiveForPayments_Unchecked(mandate) == FALSE

\* create_recurring_payment: mandate.status not in [AUTHORIZED, CONFIRMED]
InactiveForPayments(mandate) == mandate.status \notin ActiveForPayments

\* POST /emandate/recurring-payment
create_recurring_payment(mandate_id, amount) ==
    LET req == [mandate_id |-> mandate_id, amount |-> amount] IN
    /\ IF mandate_id \notin DOMAIN mandates
       THEN /\ response' = [op |-> "recurring", code |-> 404, req |-> req]
            /\ UNCHANGED tasks
       ELSE IF InactiveForPayments(mandates[mandate_id])
       THEN /\ response' = [op |-> "recurring", code |-> 400, req |-> req]
            /\ UNCHANGED tasks
       ELSE IF ExceedsLimit(amount, mandates[mandate_id])
       THEN /\ response' = [op |-> "recurring", code |-> 400, req |-> req]
            /\ UNCHANGED tasks
       ELSE /\ Len(tasks) < MaxTasks
            /\ tasks' = Append(tasks, NewTask("recurring", mandate_id, amount, 0))
            /\ response' = [op |-> "recurring", code |-> 202, req |-> req]
    /\ UNCHANGED <<use_mock, conversion, db, inflight>>

\* POST /emandate/validate-mandate/{mandate_id}
validate_mandate(mandate_id) ==
    /\ IF mandate_id \notin DOMAIN mandates
       THEN /\ response' = [op |-> "validate", code |-> 404]
            /\ UNCHANGED tasks
       ELSE /\ Len(tasks) < MaxTasks
            /\ tasks' = Append(tasks, NewTask("validate", mandate_id, 0, 0))
            /\ response' = [op |-> "validate", code |-> 200]
    /\ UNCHANGED <<use_mock, conversion, db, inflight>>

\* ------------------------------------------------------- payment endpoints
\* POST /payments/orders: the body is an OrderCreate
create_order(customer_id, amount, gw_fail) ==
    LET order_data == Schema([customer_id |-> customer_id, amount |-> amount]) IN
    /\ IF CreateOrderOutcome(order_data, gw_fail) # "ok"
       THEN /\ response' = [op |-> "create_order", code |-> 500]
            /\ UNCHANGED orders
       ELSE /\ Len(orders) < MaxOrders
            /\ orders' = Append(orders, NewOrder(order_data))
            /\ response' = [op |-> "create_order", code |-> 201]
    /\ UNCHANGED <<use_mock, conversion, customers, mandates, payments, webhook_events, tasks, inflight>>

\* POST /payments: the body is a PaymentCreate; neither customer_id nor
\* mandate_id nor the amount is compared with a stored row
create_payment(customer_id, mandate_id, amount) ==
    LET payment_data == Schema([customer_id |-> customer_id,
                                mandate_id |-> mandate_id, amount |-> amount]) IN
    /\ IF CreatePaymentOutcome(payment_data) # "ok"
       THEN /\ response' = [op |-> "create_payment", code |-> 500]
            /\ UNCHANGED payments
       ELSE /\ Len(payments) < MaxPayments
            /\ payments' = Append(payments, NewPayment(payment_data))
            /\ response' = [op |-> "create_payment", code |-> 201]
    /\ UNCHANGED <<use_mock, conversion, customers, mandates, orders, webhook_events, tasks, inflight>>


\* ------------------------------------------------------------ emandate tasks
\* What one execution of an eMandate task can meet besides the gateway: "db",
\* the first query raising (database unreachable); "payment", the commit of
\* create_payment raising after create_order committed its row; "late", the
\* commit that ends the task raising after the services committed their rows.
TaskFaults == {"none", "db", "payment", "late"}

\* one execution of process_emandate_authorization(customer_id, mandate_id, order_data);
\* order_data arrives as the dict the handler made of its OrderCreate
process_emandate_authorization(t, fault, gw_fail) ==
    LET task == tasks[t]
        m == task.mandate_id
        order_data == Dict([customer_id |-> mandates[m].customer_id,
                            amount |-> task.amount])
        outcome == CreateOrderOutcome(order_data, gw_fail)
    IN
    /\ Queued(t)
    /\ task.kind = "authorize"
    /\ IF fault = "db"
       THEN /\ tasks' = [tasks EXCEPT ![t] = RetryOrFail(task, "transient")]
            /\ UNCHANGED <<mandates, orders>>
       ELSE IF m \notin DOMAIN mandates
       THEN \* ValueError("Mandate not found"), caught by except Exception
            /\ tasks' = [tasks EXCEPT ![t] = RetryOrFail(task, "nontransient")]
            /\ UNCHANGED <<mandates, orders>>
       ELSE IF outcome # "ok"
       THEN /\ tasks' = [tasks EXCEPT ![t] = RetryOrFail(task,
                   IF outcome = "gateway" THEN "transient" ELSE "nontransient")]
            /\ UNCHANGED <<mandates, orders>>
       ELSE /\ Len(orders) < MaxOrders
            /\ orders' = Append(orders, NewOrder(order_data))
            /\ IF fault = "late"
               THEN /\ tasks' = [tasks EXCEPT ![t] = RetryOrFail(
                           [task EXCEPT !.applied = @ + 1], "transient")]
                    /\ UNCHANGED mandates
               ELSE /\ mandates' = [mandates EXCEPT
                           ![m].status = "authorized",
                           ![m].razorpay_mandate_id = MandateMockId(m)]
                    /\ tasks' = [tasks EXCEPT ![t] = Succeed([task EXCEPT !.applied = @ + 1])]
    /\ UNCHANGED <<use_mock, conversion, customers, payments, webhook_events, inflight, response>>

\* process_recurring_payment: mandate.status != MandateStatus.CONFIRMED
NotConfirmed(mandate) == mandate.status # "confirmed"

\* one execution of process_recurring_payment(mandate_id, payment_data); the
\* task builds order_data and the argument of create_payment as dicts
process_recurring_payment(t, fault, gw_fail) ==
    LET task == tasks[t]
        m == task.mandate_id
        order_data == Dict([customer_id |-> mandates[m].customer_id,
                            amount |-> task.amount])
        payment_data == Dict([customer_id |-> mandates[m].customer_id,
                              mandate_id |-> m, amount |-> task.amount])
        outcome == CreateOrderOutcome(order_data, gw_fail)
        pid == Len(payments) + 1
    IN
    /\ Queued(t)
    /\ task.kind = "recurring"
    /\ IF fault = "db"
       THEN /\ tasks' = [tasks EXCEPT ![t] = RetryOrFail(task, "transient")]
            /\ UNCHANGED <<orders, payments>>
       ELSE IF m \notin DOMAIN mandates
       THEN /\ tasks' = [tasks EXCEPT ![t] = RetryOrFail(task, "nontransient")]
            /\ UNCHANGED <<orders, payments>>
       ELSE IF NotConfirmed(mandates[m])
       THEN \* ValueError("Mandate is not confirmed"), caught by except Exception
            /\ tasks' = [tasks EXCEPT ![t] = RetryOrFail(task, "nontransient")]
            /\ UNCHANGED <<orders, payments>>
       ELSE IF outcome # "ok"
       THEN /\ tasks' = [tasks EXCEPT ![t] = RetryOrFail(task,
                   IF outcome = "gateway" THEN "transient" ELSE "nontransient")]
            /\ UNCHANGED <<orders, payments>>
       ELSE /\ Len(orders) < MaxOrders
            /\ Len(payments) < MaxPayments
            /\ orders' = Append(orders, NewOrder(order_data))
            /\ IF CreatePaymentOutcome(payment_data) # "ok" \/ fault = "payment"
               THEN /\ tasks' = [tasks EXCEPT ![t] = RetryOrFail(
                           [task EXCEPT !.applied = @ + 1],
                           IF fault = "payment" THEN "transient" ELSE "nontransient")]
                    /\ UNCHANGED payments
               ELSE IF fault = "late"
               THEN /\ payments' = Append(payments, NewPayment(payment_data))
                    /\ tasks' = [tasks EXCEPT ![t] = RetryOrFail(
                           [task EXCEPT !.applied = @ + 1], "transient")]
               ELSE /\ payments' = Append(payments,
                           [NewPayment(payment_data) EXCEPT
                               !.razorpay_payment_id = PayId(pid),
                               !.razorpay_order_id = GatewayOrderId,
                               !.status = "captured"])
                    /\ tasks' = [tasks EXCEPT ![t] = Succeed([task EXCEPT !.applied = @ + 1])]
    /\ UNCHANGED <<use_mock, conversion, customers, mandates, webhook_events, inflight, response>>

\* the validation task as it would be without the test of the identifier
HasGatewayMandateId_Any(mandate) == TRUE

\* validate_mandate_status: if mandate.razorpay_mandate_id
HasGatewayMandateId(mandate) == mandate.razorpay_mandate_id # NullId

\* one execution of validate_mandate_status(mandate_id)
validate_mandate_status(t) ==
    LET task == tasks[t]
        m == task.mandate_id
    IN
    /\ Queued(t)
    /\ task.kind = "validate"
    /\ IF m \notin DOMAIN mandates
       THEN /\ tasks' = [tasks EXCEPT ![t] = Fail(task, "nontransient")]
            /\ UNCHANGED mandates
       ELSE IF HasGatewayMandateId(mandates[m])
       THEN /\ mandates' = [mandates EXCEPT ![m].status = "confirmed"]
            /\ tasks' = [tasks EXCEPT ![t] = Succeed(task)]
       ELSE /\ tasks' = [tasks EXCEPT ![t] = Succeed(task)]
            /\ UNCHANGED mandates
    /\ UNCHANGED <<use_mock, conversion, customers, orders, payments, webhook_events, inflight, response>>

\* ------------------------------------------------------- amount conversion
\* Python's float is the IEEE-754 double: 53 significant bits and a binary
\* exponent.  A positive float is held as e, the exponent of its leading bit,
\* and m, its 53 significant bits in three limbs of base 2^18, the first limb
\* holding the leading 17 bits: its value is
\* (m[1] * 2^36 + m[2] * 2^18 + m[3]) * 2^(e - 52), with 2^16 <= m[1] < 2^17.
MantissaBits == 53
LimbBits == 18

RECURSIVE Pow2(_)
Pow2(n) == IF n = 0 THEN 1 ELSE 2 * Pow2(n - 1)

Limb == Pow2(LimbBits)
\* the bits of the first limb
TopBits == MantissaBits - 2 * LimbBits

ZeroFloat == [m |-> <<0, 0, 0>>, e |-> 0]

\* the number of binary digits of a natural number
RECURSIVE BitLength(_)
BitLength(n) == IF n = 0 THEN 0 ELSE 1 + BitLength(n \div 2)

\* m + 1 on the last place; a carry out of the first limb gives 2^53, which
\* is 2^52 with the exponent one higher
RoundUp(m, e) ==
    LET l3 == m[3] + 1
        l2 == m[2] + l3 \div Limb
        l1 == m[1] + l2 \div Limb
    IN IF l1 = Pow2(TopBits)
       THEN [m |-> <<Pow2(TopBits - 1), 0, 0>>, e |-> e + 1]
       ELSE [m |-> <<l1, l2 % Limb, l3 % Limb>>, e |-> e]

\* The float nearest to an exact result, ties to even: m holds the leading 53
\* bits of the result, e is the exponent of its leading bit, and below is what
\* lies under the last place, compared with half a unit of it: -1, 0 or 1
\* (and -1 as well when nothing lies under it).
RoundToFloat(m, e, below) ==
    IF below = 1 \/ (below = 0 /\ m[3] % 2 = 1) THEN RoundUp(m, e)
    ELSE [m |-> m, e |-> e]

\* a / b scaled by a power of two into [1, 2): a * 2^-e / b, as a pair a, b
RECURSIVE Normalise(_, _, _)
Normalise(a, b, e) ==
    IF a < b THEN Normalise(2 * a, b, e - 1)
    ELSE IF a >= 2 * b THEN Normalise(a, 2 * b, e + 1)
    ELSE [a |-> a, b |-> b, e |-> e]

Compare(x, y) == IF x < y THEN -1 ELSE IF x = y THEN 0 ELSE 1

\* x / d of two ints (x >= 0, d > 0): the float nearest to the quotient, by
\* long division in base 2^18
TrueDivide(x, d) ==
    IF x = 0 THEN ZeroFloat
    ELSE LET norm == Normalise(x, d, 0)
             n1 == norm.a * Pow2(TopBits - 1)
             n2 == (n1 % norm.b) * Limb
             n3 == (n2 % norm.b) * Limb
             r == n3 % norm.b
         IN RoundToFloat(<<n1 \div norm.b, n2 \div norm.b, n3 \div norm.b>>,
                         norm.e, Compare(2 * r, norm.b))

\* f * c of a float and an int c > 0 that a float holds exactly: the float
\* nearest to the product.  The product of the limbs is exact; it has k bits
\* more than a float keeps, which are shifted out and decide the rounding.
Multiply(f, c) ==
    IF f = ZeroFloat THEN ZeroFloat
    ELSE LET p3 == f.m[3] * c
             p2 == f.m[2] * c + p3 \div Limb
             p1 == f.m[1] * c + p2 \div Limb
             d3 == p3 % Limb
             d2 == p2 % Limb
             k == BitLength(p1) - TopBits
             out == d3 % Pow2(k)
             m == <<p1 \div Pow2(k),
                    d2 \div Pow2(k) + (p1 % Pow2(k)) * Pow2(LimbBits - k),
                    d3 \div Pow2(k) + (d2 % Pow2(k)) * Pow2(LimbBits - k)>>
         IN RoundToFloat(m, f.e + k, IF k = 0 THEN -1 ELSE Compare(2 * out, Pow2(k)))

\* int(f) of a float f >= 0 below 2^17: the digits before the binary point
Truncate(f) ==
    IF f = ZeroFloat \/ f.e < 0 THEN 0
    ELSE f.m[1] \div Pow2(TopBits - 1 - f.e)

\* helpers.py convert_amount_to_paise(amount: float): int(amount * 100)
convert_amount_to_paise(amount) == Truncate(Multiply(amount, 100))

\* helpers.py convert_amount_from_paise(amount: int): amount / 100
convert_amount_from_paise(amount) == TrueDivide(amount, 100)

\* An OrderCreate.amount is a Decimal, any number of decimal places; here it
\* is held in thousandths.  PaymentService.create_order sends the gateway
\* int(order_data.amount * 100): Decimal arithmetic is exact and int() drops
\* the fraction.
Thousandths == 1000

OrderPaise(amount) == (amount * 100) \div Thousandths

\* the amounts the conversions are applied to
MaxPaise == 130
MaxThousandths == 30

\* a call of both helpers in turn: paise to rupees and back
convert_amount(amount) ==
    /\ conversion' = [op |-> "round_trip", paise |-> amount,
                      rupees |-> convert_amount_from_paise(amount),
                      back |-> convert_amount_to_paise(convert_amount_from_paise(amount))]
    /\ UNCHANGED <<use_mock, db, tasks, inflight, response>>

\* PaymentService.create_order, the body it sends to the gateway
razorpay_order_data(amount) ==
    /\ conversion' = [op |-> "order", amount |-> amount, paise |-> OrderPaise(amount)]
    /\ UNCHANGED <<use_mock, db, tasks, inflight, response>>

\* ------------------------------------------------------------ specification
Next ==
    \/ \E email \in Emails, gw_fail \in GatewayFaults : create_customer(email, gw_fail)
    \/ \E c \in CustomerIds, a \in Amounts : create_mandate(c, a)
    \/ \E m \in MandateIds, st \in UpdateStatuses, a \in UpdateAmounts : update_mandate(m, st, a)
    \/ \E c \in CustomerIds, a \in Amounts : authorize_emandate(c, a)
    \/ \E m \in MandateIds, a \in Amounts : create_recurring_payment(m, a)
    \/ \E m \in MandateIds : validate_mandate(m)
    \/ \E c \in CustomerIds, a \in Amounts, gw_fail \in GatewayFaults : create_order(c, a, gw_fail)
    \/ \E c \in CustomerIds, m \in MandateIds, a \in Amounts : create_payment(c, m, a)
    \/ \E r \in WebhookRequests : handle_razorpay_webhook(r.payload, r.missing, r.signature)
    \/ \E t \in DOMAIN tasks, fault \in TaskFaults, gw_fail \in GatewayFaults :
            process_emandate_authorization(t, fault, gw_fail)
    \/ \E t \in DOMAIN tasks, fault \in TaskFaults, gw_fail \in GatewayFaults :
            process_recurring_payment(t, fault, gw_fail)
    \/ \E t \in DOMAIN tasks : validate_mandate_status(t)
    \/ \E t \in DOMAIN tasks, fault \in ApplyFaults : process_webhook_event(t, fault)
    \/ \E t \in DOMAIN tasks, worker \in Workers : process_webhook_event_read(t, worker)
    \/ \E t \in DOMAIN tasks, worker \in Workers : process_webhook_event_apply(t, worker)
    \/ \E amount \in 0..MaxPaise : convert_amount(amount)
    \/ \E amount \in 1..MaxThousandths : razorpay_order_data(amount)

Spec == Init /\ [][Next]_vars

SomeAmount == CHOOSE a \in Amounts : TRUE

\* The webhook endpoint and the apply task, one execution at a time, with the
\* endpoint that creates the Orders an order.paid event names.
NextWebhook ==
    \/ \E gw_fail \in GatewayFaults : create_order(1, SomeAmount, gw_fail)
    \/ \E r \in WebhookRequests : handle_razorpay_webhook(r.payload, r.missing, r.signature)
    \/ \E t \in DOMAIN tasks, fault \in ApplyFaults : process_webhook_event(t, fault)

SpecWebhook == Init /\ [][NextWebhook]_vars

\* The same with the executions of the apply task split at the check of
\* webhook.processed, so that two workers can hold the same message.
NextConcurrent ==
    \/ \E gw_fail \in GatewayFaults : create_order(1, SomeAmount, gw_fail)
    \/ \E r \in WebhookRequests : handle_razorpay_webhook(r.payload, r.missing, r.signature)
    \/ \E t \in DOMAIN tasks, worker \in Workers : process_webhook_event_read(t, worker)
    \/ \E t \in DOMAIN tasks, worker \in Workers : process_webhook_event_apply(t, worker)

SpecConcurrent == Init /\ [][NextConcurrent]_vars

\* The apply functions on a Payment row: the table holds one Payment with the
\* gateway identifier the webhook bodies name, in any status of PaymentStatus;
\* the webhook endpoint stores the events and the apply task applies them.
ExistingPayment(status) ==
    [NewPayment(Schema([customer_id |-> 1, mandate_id |-> 0, amount |-> SomeAmount]))
        EXCEPT !.razorpay_payment_id = PayId(1), !.status = status]

InitApply ==
    /\ use_mock \in BOOLEAN
    /\ customers = <<[razorpay_customer_id |-> <<"cust", 1>>, email |-> "a@example.com"]>>
    /\ mandates = <<>>
    /\ orders = <<>>
    /\ \E status \in PaymentStatus : payments = <<ExistingPayment(status)>>
    /\ webhook_events = <<>>
    /\ tasks = <<>>
    /\ inflight = {}
    /\ response = [op |-> "none", code |-> 0]
    /\ conversion = NoConversion

NextApply ==
    \/ \E r \in WebhookRequests : handle_razorpay_webhook(r.payload, r.missing, r.signature)
    \/ \E t \in DOMAIN tasks, fault \in ApplyFaults : process_webhook_event(t, fault)

SpecApply == InitApply /\ [][NextApply]_vars

\* The mandate lifecycle and the task orchestrator: customers, mandates, every
\* field a mandate update can set, the two eMandate endpoints that enqueue work
\* and the recurring-payment task with the faults of each of its executions.
NextMandate ==
    \/ \E gw_fail \in GatewayFaults : create_customer("a@example.com", gw_fail)
    \/ \E c \in CustomerIds, a \in Amounts : create_mandate(c, a)
    \/ \E m \in MandateIds, st \in UpdateStatuses : update_mandate(m, st, NULL)
    \/ \E m \in DOMAIN mandates, a \in Amounts : update_mandate(m, Unset, a)
    \/ \E c \in CustomerIds : authorize_emandate(c, SomeAmount)
    \/ \E m \in MandateIds, a \in Amounts : create_recurring_payment(m, a)
    \/ \E t \in DOMAIN tasks, fault \in TaskFaults, gw_fail \in GatewayFaults :
            process_recurring_payment(t, fault, gw_fail)

SpecMandate == Init /\ [][NextMandate]_vars

\* The rows a mandate is judged by: mandates and their updates, the validation
\* endpoint and its task, and the Payments written through POST /payments.
NextRecords ==
    \/ \E gw_fail \in GatewayFaults : create_customer("a@example.com", gw_fail)
    \/ \E c \in DOMAIN customers, a \in Amounts : create_mandate(c, a)
    \/ \E m \in MandateIds, st \in UpdateStatuses, a \in UpdateAmounts : update_mandate(m, st, a)
    \/ \E m \in MandateIds : validate_mandate(m)
    \/ \E c \in DOMAIN customers, m \in DOMAIN mandates, a \in Amounts : create_payment(c, m, a)
    \/ \E t \in DOMAIN tasks : validate_mandate_status(t)

\* The customers and their mandates: every e-mail address, every customer id.
NextCustomers ==
    \/ \E email \in Emails, gw_fail \in GatewayFaults : create_customer(email, gw_fail)
    \/ \E c \in CustomerIds, a \in Amounts : create_mandate(c, a)
    \/ \E m \in MandateIds, st \in UpdateStatuses, a \in UpdateAmounts : update_mandate(m, st, a)

SpecCustomers == Init /\ [][NextCustomers]_vars

\* The writers of Payment.status: the operations that create a Payment (the
\* create_payment endpoint, the recurring-payment task of a confirmed mandate)
\* and the apply task with the events of a payment; the table of payments is
\* empty or holds one Payment with a gateway identifier.
PaymentEvents ==
    {r \in WebhookRequests :
        /\ r.missing = "none"
        /\ r.signature = Hmac(WebhookSecret, r.payload)
        /\ r.payload.event \in {"payment.captured", "payment.failed"}
        /\ r.payload.entity_id = PayId(1)}

InitPayments ==
    /\ use_mock \in BOOLEAN
    /\ customers = <<[razorpay_customer_id |-> <<"cust", 1>>, email |-> "a@example.com"]>>
    /\ mandates = <<>>
    /\ orders = <<>>
    /\ payments \in {<<>>, <<ExistingPayment("created")>>}
    /\ webhook_events = <<>>
    /\ tasks = <<>>
    /\ inflight = {}
    /\ response = [op |-> "none", code |-> 0]
    /\ conversion = NoConversion

NextPayments ==
    \/ create_mandate(1, SomeAmount)
    \/ update_mandate(1, "confirmed", NULL)
    \/ create_recurring_payment(1, SomeAmount)
    \/ \E t \in DOMAIN tasks, fault \in TaskFaults, gw_fail \in GatewayFaults :
            process_recurring_payment(t, fault, gw_fail)
    \/ \E m \in {0} \cup DOMAIN mandates : create_payment(1, m, SomeAmount)
    \/ \E r \in PaymentEvents : handle_razorpay_webhook(r.payload, r.missing, r.signature)
    \/ \E t \in DOMAIN tasks, fault \in ApplyFaults : process_webhook_event(t, fault)

SpecPayments == InitPayments /\ [][NextPayments]_vars

\* The dispatch of the apply task on its target rows: the table of payments
\* holds one Payment with a gateway identifier, not yet captured, and the
\* order endpoint stores the Order an order.paid event names.
InitDispatch ==
    /\ use_mock \in BOOLEAN
    /\ customers = <<[razorpay_customer_id |-> <<"cust", 1>>, email |-> "a@example.com"]>>
    /\ mandates = <<>>
    /\ orders = <<>>
    /\ \E status \in {"created", "authorized"} : payments = <<ExistingPayment(status)>>
    /\ webhook_events = <<>>
    /\ tasks = <<>>
    /\ inflight = {}
    /\ response = [op |-> "none", code |-> 0]
    /\ conversion = NoConversion

NextDispatch ==
    \/ \E gw_fail \in GatewayFaults : create_order(1, SomeAmount, gw_fail)
    \/ \E r \in WebhookRequests : handle_razorpay_webhook(r.payload, r.missing, r.signature)
    \/ \E t \in DOMAIN tasks, fault \in ApplyFaults : process_webhook_event(t, fault)

SpecDispatch == InitDispatch /\ [][NextDispatch]_vars

\* The authorization of mandates: the authorize endpoint with the endpoints
\* that store customers and mandates.  The workers are fair to the
\* authorization task: an execution that stays possible is run, with a gateway
\* that answers.
NextAuthorize ==
    \/ \E email \in Emails, gw_fail \in GatewayFaults : create_customer(email, gw_fail)
    \/ \E c \in CustomerIds, a \in Amounts : create_mandate(c, a)
    \/ \E m \in MandateIds, st \in UpdateStatuses : update_mandate(m, st, NULL)
    \/ \E c \in CustomerIds, a \in Amounts : authorize_emandate(c, a)

SpecAuthorizeFair ==
    /\ Init
    /\ [][NextAuthorize]_vars
    /\ WF_vars(\E t \in 1..MaxTasks : process_emandate_authorization(t, "none", FALSE))

\* The task orchestrator: the endpoints that enqueue a task of each kind and
\* the three tasks, with the faults of their executions.  The workers are fair
\* to every task: a message that stays in the queue is delivered and run.
NextTasks ==
    \/ create_mandate(1, SomeAmount)
    \/ update_mandate(1, "confirmed", NULL)
    \/ create_recurring_payment(1, SomeAmount)
    \/ validate_mandate(1)
    \/ \E r \in PaymentEvents : handle_razorpay_webhook(r.payload, r.missing, r.signature)
    \/ \E t \in DOMAIN tasks, fault \in TaskFaults, gw_fail \in GatewayFaults :
            process_recurring_payment(t, fault, gw_fail)
    \/ \E t \in DOMAIN tasks : validate_mandate_status(t)
    \/ \E t \in DOMAIN tasks, fault \in ApplyFaults : process_webhook_event(t, fault)

\* one execution of the task t, whatever its kind
Execute(t) ==
    \/ \E fault \in TaskFaults, gw_fail \in GatewayFaults :
            process_recurring_payment(t, fault, gw_fail)
    \/ validate_mandate_status(t)
    \/ \E fault \in ApplyFaults : process_webhook_event(t, fault)

SpecTasksFair ==
    /\ InitPayments
    /\ [][NextTasks]_vars
    /\ \A t \in 1..MaxTasks : WF_vars(Execute(t))

\* The recurring-payment endpoint with every amount its request schema lets
\* through: EMandateRecurringPaymentRequest.amount is a Decimal without a
\* validator, so zero is among them.
RequestAmounts == Amounts \cup {0}

NextRecurring ==
    \/ \E gw_fail \in GatewayFaults : create_customer("a@example.com", gw_fail)
    \/ \E c \in CustomerIds, a \in Amounts : create_mandate(c, a)
    \/ \E m \in MandateIds, st \in UpdateStatuses : update_mandate(m, st, NULL)
    \/ \E m \in MandateIds, a \in RequestAmounts : create_recurring_payment(m, a)

SpecRecurring == Init /\ [][NextRecurring]_vars

\* The amount conversions, applied to every amount of a range.
NextAmounts ==
    \/ \E amount \in 0..MaxPaise : convert_amount(amount)
    \/ \E amount \in 1..MaxThousandths : razorpay_order_data(amount)

SpecAmounts == Init /\ [][NextAmounts]_vars

SpecRecords == Init /\ [][NextRecords]_vars

\* The same operations on a database that holds either no mandate or the
\* mandate of customer 1 as an authorization leaves it (emandate_tasks.py
\* 40-43): status AUTHORIZED and razorpay_mandate_id f"mandate_mock_{id}".
AuthorizedMandate ==
    [NewMandate(Schema([customer_id |-> 1, amount |-> SomeAmount]))
        EXCEPT !.status = "authorized", !.razorpay_mandate_id = MandateMockId(1)]

InitAuthorized ==
    /\ use_mock \in BOOLEAN
    /\ customers = <<[razorpay_customer_id |-> <<"cust", 1>>, email |-> "a@example.com"]>>
    /\ mandates \in {<<>>, <<AuthorizedMandate>>}
    /\ orders = <<>>
    /\ payments = <<>>
    /\ webhook_events = <<>>
    /\ tasks = <<>>
    /\ inflight = {}
    /\ response = [op |-> "none", code |-> 0]
    /\ conversion = NoConversion

SpecAuthorized == InitAuthorized /\ [][NextRecords]_vars

\* ------------------------------------------------------------------ properties
\* the last response answers a webhook request that passed the signature and
\* the structure checks
WebhookAnswered == response.op = "webhook" /\ response.code \in {200, 500}

\* this step is one execution of the apply task t
ApplyStep(t) ==
    /\ tasks[t].kind = "webhook"
    /\ tasks'[t].executions = tasks[t].executions + 1

\* C1: a validly signed, complete webhook request whose payload is the payload
\* of a stored WebhookEvent (a redelivery of the same external event) is
\* acknowledged with the success envelope.
C1_RedeliveryAcknowledged ==
    (/\ WebhookAnswered
     /\ \E w \in DOMAIN webhook_events :
            webhook_events[w].payload = response.req.payload)
    => response.code = 200

\* C2: once the payment.authorized webhook of an existing payment is stored
\* and processed, the payment.captured webhook carrying the same payment id as
\* entity.id is accepted (and so gets its own WebhookEvent row and is applied).
C2_CapturedAfterAuthorizedAccepted ==
    (/\ WebhookAnswered
     /\ response.req.payload.event = "payment.captured"
     /\ FindPayment(response.req.payload.entity_id) # 0
     /\ \E w \in DOMAIN webhook_events :
            /\ webhook_events[w].event_type = "payment.authorized"
            /\ webhook_events[w].payload.entity_id = response.req.payload.entity_id
            /\ webhook_events[w].processed)
    => /\ response.code = 200
       /\ \E w \in DOMAIN webhook_events : webhook_events[w].payload = response.req.payload

\* the edges of the mandate lifecycle
MandateEdges ==
    {<<"created", "authorized">>, <<"authorized", "confirmed">>,
     <<"confirmed", "paused">>, <<"confirmed", "cancelled">>, <<"confirmed", "expired">>}

\* C3: every change of the status of a Mandate, by a task or by a mandate
\* update, follows an edge of Created -> Authorized -> Confirmed -> {Paused,
\* Cancelled, Expired}; from any other source status the status is left
\* unchanged (so a Cancelled or Expired mandate keeps its status).
C3_StatusFollowsMandateEdges ==
    [][\A m \in DOMAIN mandates :
            \/ mandates'[m].status = mandates[m].status
            \/ <<mandates[m].status, mandates'[m].status>> \in MandateEdges]_vars

C6_ThreeExecutionsThenFailed ==
    \A t \in DOMAIN tasks :
        (tasks[t].errs = {"transient"} /\ tasks[t].state # "success")
        => /\ tasks[t].executions <= 3
           /\ tasks[t].executions = 3 => tasks[t].state = "failure"

\* C7: a task that failed with a non-transient error was executed exactly once
\* and is permanently failed, not waiting for a retry.
C7_NonTransientFailsOnce ==
    \A t \in DOMAIN tasks :
        tasks[t].errs = {"nontransient"}
        => tasks[t].state = "failure" /\ tasks[t].executions = 1

\* C8: a WebhookEvent with a recorded processing_error has processed = false.
C8_ErrorLeavesUnprocessed ==
    \A w \in DOMAIN webhook_events :
        webhook_events[w].processing_error # NoError => ~webhook_events[w].processed

\* C9: processed = true is terminal: no step sets it back to false, and an
\* execution of the apply task for a processed WebhookEvent changes no Payment,
\* Order or WebhookEvent.
C9_ProcessedIsTerminal ==
    [][/\ \A w \in DOMAIN webhook_events :
            webhook_events[w].processed => webhook_events'[w].processed
       /\ \A t \in DOMAIN tasks :
            (ApplyStep(t) /\ webhook_events[tasks[t].webhook_id].processed)
            => UNCHANGED <<payments, orders, webhook_events>>]_vars

\* an apply task ran again after its event was marked processed, returned
\* normally, and applying the event would have changed its target row
C9_ReexecutionShortCircuited ==
    \E t \in DOMAIN tasks :
        /\ tasks[t].kind = "webhook"
        /\ tasks[t].executions >= 2
        /\ tasks[t].state = "success"
        /\ LET w == webhook_events[tasks[t].webhook_id]
               r == Dispatch(w.event_type, w.payload)
           IN w.processed /\ (r.payments # payments \/ r.orders # orders)

\* C10: no two WebhookEvent rows carry the same external event identifier.
C10_OneRowPerEventId ==
    \A v, w \in DOMAIN webhook_events :
        webhook_events[v].event_id = webhook_events[w].event_id => v = w

\* a second delivery of a stored event identifier was refused by the table and
\* the identifier still has its one row
C10_SecondDeliveryRefused ==
    /\ response.op = "webhook"
    /\ response.code = 500
    /\ Cardinality({w \in DOMAIN webhook_events :
            webhook_events[w].event_id = EventIdOf(response.req.payload)}) = 1

\* C11: the state transition of a WebhookEvent is applied to its target row at
\* most once, also when two workers execute the apply task of the event
\* concurrently and both read the event before either marks it processed.
C11_AppliedAtMostOnce ==
    \A t \in DOMAIN tasks :
        tasks[t].kind = "webhook" => tasks[t].applied <= 1

\* this step answers a webhook request
WebhookStep == response' # response /\ response'.op = "webhook"

\* the signature header of the answered request is the HMAC of its body under
\* the webhook secret
ValidlySigned(req) == req.signature = Hmac(WebhookSecret, req.payload)

RecurringStep ==
    /\ response' # response
    /\ response'.op = "recurring"
    /\ response'.req.mandate_id \in DOMAIN mandates

\* C14: a recurring-payment request whose amount is greater than the amount of
\* its mandate is answered 400, and the step creates no Order, no Payment and
\* no task.
C14_OverLimitRejected ==
    [][(RecurringStep
            /\ response'.req.amount > mandates[response'.req.mandate_id].amount)
            => response'.code = 400 /\ UNCHANGED <<orders, payments, tasks>>]_vars

\* a request above the ceiling of a mandate that is active for payments was
\* answered 400
C14_ActiveMandateOverLimit ==
    /\ response.op = "recurring"
    /\ response.code = 400
    /\ response.req.mandate_id \in DOMAIN mandates
    /\ mandates[response.req.mandate_id].status \in ActiveForPayments
    /\ response.req.amount > mandates[response.req.mandate_id].amount

\* C16: a recurring-payment request against a mandate whose status is neither
\* Authorized nor Confirmed (a mandate still Created, for one) is answered 400,
\* and the step creates no Payment, no Order and no task.
C16_InactiveMandateRejected ==
    [][(RecurringStep
            /\ mandates[response'.req.mandate_id].status \notin {"authorized", "confirmed"})
            => response'.code = 400 /\ UNCHANGED <<orders, payments, tasks>>]_vars

\* a request within the ceiling of a mandate still Created was answered 400
C16_CreatedMandateRefused ==
    /\ response.op = "recurring"
    /\ response.code = 400
    /\ response.req.mandate_id \in DOMAIN mandates
    /\ mandates[response.req.mandate_id].status = "created"
    /\ response.req.amount <= mandates[response.req.mandate_id].amount

\* C15: every recurring Payment row attached to a Mandate has, when the row is
\* created, an amount not greater than the amount of that Mandate, whichever
\* operation creates the row.
C15_PaymentWithinCeiling ==
    [][\A p \in DOMAIN payments' \ DOMAIN payments :
            (/\ payments'[p].transaction_type = "recurring_payment"
             /\ payments'[p].mandate_id \in DOMAIN mandates)
            => payments'[p].amount <= mandates[payments'[p].mandate_id].amount]_vars

\* this step is an execution of the authorize task of mandate m that returned
AuthorizedBy(m) ==
    \E t \in DOMAIN tasks :
        /\ tasks[t].kind = "authorize"
        /\ tasks[t].mandate_id = m
        /\ tasks[t].state = "queued"
        /\ tasks'[t].state = "success"

TaskStep(t) ==
    /\ tasks[t].kind \in {"authorize", "recurring"}
    /\ tasks'[t].executions = tasks[t].executions + 1

C20_AuthorizeAccepted ==
    response.op = "authorize"
    => IF response.req.customer_id \in DOMAIN customers
       THEN /\ response.code = 202
            /\ \E m \in DOMAIN mandates, t \in DOMAIN tasks :
                    /\ mandates[m].customer_id = response.req.customer_id
                    /\ tasks[t].kind = "authorize"
                    /\ tasks[t].mandate_id = m
       ELSE response.code = 404

\* ---------------------------------------------------------------- C21
\* round(amount * 100) of a Decimal held in thousandths: the nearest integer,
\* ties to the even one
RoundedPaise(amount) ==
    LET q == amount \div 10
        r == amount % 10
    IN IF r > 5 \/ (r = 5 /\ q % 2 = 1) THEN q + 1 ELSE q

\* C21: converting an amount in paise to rupees and back gives the amount
\* again, for every non-negative integer, and the amount in paise sent to
\* the gateway for an order is round(amount * 100).
C21_ConversionRoundTrips ==
    /\ conversion.op = "round_trip" => conversion.back = conversion.paise
    /\ conversion.op = "order" => conversion.paise = RoundedPaise(conversion.amount)

\* ---------------------------------------------------------------- C22
\* a POST /customers with the given e-mail address, answered by the gateway
CustomerStep(email) == create_customer(email, FALSE)

EmailUnused(email) == ~\E c \in DOMAIN customers : customers[c].email = email

\* C22: every creation of a customer with an e-mail address no stored
\* Customer has, the first and each later one, is answered 201 and stores a
\* Customer with that address and the customer id of the gateway, which is
\* then found by its id.
C22_EveryDistinctEmailCreated ==
    [][\A email \in Emails :
          (CustomerStep(email) /\ EmailUnused(email))
              => /\ response'.code = 201
                 /\ Len(customers') = Len(customers) + 1
                 /\ customers'[Len(customers')].email = email
                 /\ customers'[Len(customers')].razorpay_customer_id # NullId]_vars

\* ---------------------------------------------------------------- C23
\* C23: a POST /mandates that names an existing customer is answered 201 and
\* stores one Mandate of that customer, status Created, no gateway mandate id;
\* one that names no existing customer is answered 400 and stores nothing.
C23_MandateCreatedForCustomer ==
    [][\A c \in CustomerIds, a \in Amounts :
          create_mandate(c, a)
              => IF c \in DOMAIN customers
                 THEN /\ response'.code = 201
                      /\ Len(mandates') = Len(mandates) + 1
                      /\ SubSeq(mandates', 1, Len(mandates)) = mandates
                      /\ mandates'[Len(mandates')] =
                             [customer_id |-> c, amount |-> a, status |-> "created",
                              razorpay_mandate_id |-> NullId]
                 ELSE /\ response'.code = 400
                      /\ mandates' = mandates]_vars

\* a Mandate was created, and a later request naming no customer was refused
C23_CreatedThenRefused ==
    /\ response = [op |-> "create_mandate", code |-> 400]
    /\ \E m \in DOMAIN mandates :
          /\ mandates[m].status = "created"
          /\ mandates[m].razorpay_mandate_id = NullId
          /\ mandates[m].customer_id \in DOMAIN customers

\* ---------------------------------------------------------------- C24
\* C24: a Mandate becomes Authorized only in a step of an authorization task
\* that also stored its Order; otherwise its status and its gateway mandate
\* id stay as they were.
C24_AuthorizedOnlyWithOrder ==
    [][\A m \in DOMAIN mandates :
          (mandates[m].status # "authorized" /\ mandates'[m].status = "authorized")
              => /\ Len(orders') = Len(orders) + 1
                 /\ orders'[Len(orders')].customer_id = mandates[m].customer_id
                 /\ \E t \in DOMAIN tasks :
                       /\ tasks[t].kind = "authorize"
                       /\ tasks[t].mandate_id = m
                       /\ tasks'[t].applied = tasks[t].applied + 1]_vars

\* ---------------------------------------------------------------- C25
\* C25: a Mandate becomes Confirmed only from Authorized, so no Mandate is
\* Confirmed that was never Authorized; a Mandate that is Created, with no
\* gateway mandate id, is not moved by the validation task.
C25_ConfirmedOnlyFromAuthorized ==
    [][\A m \in DOMAIN mandates :
          (mandates[m].status # "confirmed" /\ mandates'[m].status = "confirmed")
              => mandates[m].status = "authorized"]_vars

\* ---------------------------------------------------------------- C26
\* C26: the handler of POST /emandate/recurring-payment and the task
\* process_recurring_payment apply the same rule to the mandate, so a
\* request the handler accepts (mandate Authorized or Confirmed, amount within
\* the ceiling) meets no status precondition in the task that fails it.
C26_AcceptedPassesTaskRule ==
    [][(RecurringStep /\ response'.code = 202)
          => ~NotConfirmed(mandates[response'.req.mandate_id])]_vars

\* ---------------------------------------------------------------- C27
\* a step of a client request: no task is executed in it
RequestStep == \A t \in DOMAIN tasks : tasks'[t] = tasks[t]

\* C27: no client request changes the status or the amount of a stored
\* Mandate or the status of a stored Payment; they change only in the
\* execution of a task.
C27_RequestsLeaveStatus ==
    [][RequestStep
          => /\ \A m \in DOMAIN mandates :
                   /\ mandates'[m].status = mandates[m].status
                   /\ mandates'[m].amount = mandates[m].amount
             /\ \A p \in DOMAIN payments :
                   payments'[p].status = payments[p].status]_vars

UnprocessedRows(payload) ==
    {w \in DOMAIN webhook_events :
        /\ webhook_events[w].event_id = EventIdOf(payload)
        /\ ~webhook_events[w].processed}

\* C29: a validly signed, complete webhook request whose event identifier is
\* that of a stored, unprocessed WebhookEvent reuses that row: it is answered
\* with the success envelope, no second row is stored, and the apply task of
\* the row is enqueued.
C29_UnprocessedRowReused ==
    [][(/\ WebhookStep
        /\ ValidlySigned(response'.req)
        /\ response'.req.missing = "none"
        /\ UnprocessedRows(response'.req.payload) # {})
            => /\ response'.code = 200
               /\ Len(webhook_events') = Len(webhook_events)
               /\ Len(tasks') = Len(tasks) + 1
               /\ tasks'[Len(tasks')].kind = "webhook"
               /\ tasks'[Len(tasks')].webhook_id \in UnprocessedRows(response'.req.payload)]_vars

\* ---------------------------------------------------------------- C30
\* this step is an execution of the apply task t that ended in its except
\* branch: the event was unprocessed and is left with a processing error
FailedApplyStep(t) ==
    /\ ApplyStep(t)
    /\ ~webhook_events[tasks[t].webhook_id].processed
    /\ webhook_events'[tasks[t].webhook_id].processing_error # NoError

AppliedStep(t) ==
    /\ ApplyStep(t)
    /\ ~webhook_events[tasks[t].webhook_id].processed
    /\ webhook_events'[tasks[t].webhook_id].processed
    /\ webhook_events'[tasks[t].webhook_id].processing_error = NoError

\* the rows of a table, but the row at index keep, are what they were
OtherRowsKept(before, after, keep) ==
    /\ Len(after) = Len(before)
    /\ \A i \in DOMAIN before : i # keep => after[i] = before[i]

\* C31: an execution of the apply task that applies an event whose target
\* row exists sets that row by the type of the event: payment.authorized, the
\* Payment to Authorized; payment.captured, to Captured with the fee and the
\* tax of the event; payment.failed, to Failed with the error code of the
\* event; order.paid, the Order to paid.  It changes no other Payment or
\* Order, no Mandate or Customer, and no WebhookEvent but its own.
C31_DispatchByEventType ==
    [][\A t \in DOMAIN tasks :
          AppliedStep(t) =>
              LET w == tasks[t].webhook_id
                  event == webhook_events[w]
                  p == FindPayment(event.payload.entity_id)
                  o == FindOrder(event.payload.entity_id)
              IN /\ OtherRowsKept(webhook_events, webhook_events', w)
                 /\ UNCHANGED <<customers, mandates>>
                 /\ OtherRowsKept(payments, payments', p)
                 /\ OtherRowsKept(orders, orders', o)
                 /\ (event.event_type = "payment.authorized" /\ p # 0)
                        => /\ payments'[p] = [payments[p] EXCEPT !.status = "authorized"]
                           /\ orders' = orders
                 /\ (event.event_type = "payment.captured" /\ p # 0)
                        => /\ payments'[p] = [payments[p] EXCEPT !.status = "captured",
                                   !.fee = event.payload.fee, !.tax = event.payload.tax]
                           /\ orders' = orders
                 /\ (event.event_type = "payment.failed" /\ p # 0)
                        => /\ payments'[p] = [payments[p] EXCEPT !.status = "failed",
                                   !.error_code = event.payload.error_code]
                           /\ orders' = orders
                 /\ (event.event_type = "order.paid" /\ o # 0)
                        => /\ orders'[o] = [orders[o] EXCEPT !.status = "paid"]
                           /\ payments' = payments]_vars

\* an order.paid event was applied to its Order and a payment event to its
\* Payment
C31_OrderAndPaymentApplied ==
    /\ \E o \in DOMAIN orders : orders[o].status = "paid"
    /\ \E p \in DOMAIN payments : payments[p].status \in {"captured", "failed"}
    /\ \A w \in DOMAIN webhook_events :
          webhook_events[w].processed /\ webhook_events[w].processing_error = NoError
    /\ Len(webhook_events) = 2

\* ---------------------------------------------------------------- C32
\* C32: an execution of the apply task on an unprocessed event whose type is
\* none of the recognized ones marks the event processed with no processing
\* error, changes no Payment, Order or Mandate, and returns: the task
\* succeeds and is not retried.
C32_UnknownTypeOnlyMarked ==
    [][\A t \in DOMAIN tasks :
          (/\ process_webhook_event(t, "none")
           /\ ~webhook_events[tasks[t].webhook_id].processed
           /\ webhook_events[tasks[t].webhook_id].event_type \notin RecognizedEvents)
              => /\ webhook_events' = [webhook_events EXCEPT
                         ![tasks[t].webhook_id].processed = TRUE]
                 /\ webhook_events'[tasks[t].webhook_id].processing_error = NoError
                 /\ UNCHANGED <<payments, orders, mandates>>
                 /\ tasks'[t].state = "success"
                 /\ tasks'[t].retries = tasks[t].retries
                 /\ tasks'[t].errs = {}]_vars

\* a refund.processed event that names a stored Payment was applied at the
\* first execution of its task
C32_UnknownEventProcessed ==
    \E t \in DOMAIN tasks :
        /\ tasks[t].kind = "webhook"
        /\ tasks[t].state = "success"
        /\ tasks[t].executions = 1
        /\ webhook_events[tasks[t].webhook_id].event_type = "refund.processed"
        /\ webhook_events[tasks[t].webhook_id].processed
        /\ FindPayment(webhook_events[tasks[t].webhook_id].payload.entity_id) # 0

\* ---------------------------------------------------------------- C33
\* the customer has a Mandate that is Authorized and holds a gateway mandate
\* identifier, and an Order
AuthorizedWithOrder(c) ==
    /\ \E m \in DOMAIN mandates :
          /\ mandates[m].customer_id = c
          /\ mandates[m].status = "authorized"
          /\ mandates[m].razorpay_mandate_id # NullId
    /\ \E o \in DOMAIN orders : orders[o].customer_id = c

Terminal(t) == t \in DOMAIN tasks /\ tasks[t].state \in {"success", "failure"}

\* C34: every task is executed at most once more than the retry bound, a task
\* that was executed that often has ended, a failed task keeps the record of
\* its errors, and with fair workers every enqueued task ends, in success or
\* in failure.
C34_EveryTaskEnds ==
    /\ [](\A t \in DOMAIN tasks :
            /\ tasks[t].executions <= MaxRetries + 1
            /\ tasks[t].executions = MaxRetries + 1 => Terminal(t)
            /\ tasks[t].state = "failure" => tasks[t].errs # {})
    /\ \A t \in 1..MaxTasks : (t \in DOMAIN tasks) ~> Terminal(t)

\* a recurring-payment task has failed after the last retry while a webhook
\* task has returned
C34_ExhaustedAndReturned ==
    \E t, u \in DOMAIN tasks :
        /\ tasks[t].kind = "recurring"
        /\ tasks[t].state = "failure"
        /\ tasks[t].executions = MaxRetries + 1
        /\ tasks[u].kind = "webhook"
        /\ tasks[u].state = "success"

\* ---------------------------------------------------------------- C35
\* this step is an execution of the validation task t
ValidateStep(t) ==
    /\ tasks[t].kind = "validate"
    /\ tasks'[t].executions = tasks[t].executions + 1

\* C35: an execution of the validation task changes at most the status of
\* its mandate, and leaves it in a state that a further execution does not
\* change: a mandate without a gateway mandate identifier is left as it is,
\* and so is a mandate that an execution has confirmed.
C35_ValidationIdempotent ==
    [][\A t \in DOMAIN tasks :
          (ValidateStep(t) /\ tasks[t].mandate_id \in DOMAIN mandates) =>
              LET m == tasks[t].mandate_id IN
              /\ OtherRowsKept(mandates, mandates', m)
              /\ mandates'[m] = [mandates[m] EXCEPT !.status = mandates'[m].status]
              /\ mandates[m].razorpay_mandate_id = NullId => mandates' = mandates
              /\ mandates[m].status = "confirmed" => mandates' = mandates
              /\ mandates'[m].razorpay_mandate_id # NullId
                    => mandates'[m].status = "confirmed"]_vars

\* the validation task ran twice on a mandate with a gateway mandate
\* identifier, which is Confirmed
C35_ValidatedTwice ==
    \E t, u \in DOMAIN tasks :
        /\ t # u
        /\ tasks[t].kind = "validate" /\ tasks[t].state = "success"
        /\ tasks[u].kind = "validate" /\ tasks[u].state = "success"
        /\ tasks[t].mandate_id = tasks[u].mandate_id
        /\ tasks[t].mandate_id \in DOMAIN mandates
        /\ mandates[tasks[t].mandate_id].razorpay_mandate_id # NullId
        /\ mandates[tasks[t].mandate_id].status = "confirmed"

\* ---------------------------------------------------------------- C36
\* C36: in every reachable state a Payment holds a fee or a tax only if it is
\* Captured or Refunded, by a capture that was applied to it, and an error
\* code only if it is Failed.
C36_FeeAndErrorMatchStatus ==
    \A p \in DOMAIN payments :
        /\ (payments[p].fee # NULL \/ payments[p].tax # NULL)
              => /\ payments[p].status \in {"captured", "refunded"}
                 /\ \E w \in DOMAIN webhook_events :
                       /\ webhook_events[w].event_type = "payment.captured"
                       /\ webhook_events[w].payload.entity_id = payments[p].razorpay_payment_id
                       /\ webhook_events[w].processed
        /\ payments[p].error_code # NoError => payments[p].status = "failed"

\* a capture was applied to a Payment, which holds its fee and its tax
C36_CapturedWithFee ==
    \E p \in DOMAIN payments :
        /\ payments[p].status = "captured"
        /\ payments[p].fee # NULL
        /\ payments[p].tax # NULL

\* ---------------------------------------------------------------- C37
\* C37: a recurring-payment request whose amount is not greater than 0 is
\* rejected, and the step creates no task, no Order and no Payment.
C37_NonPositiveAmountRejected ==
    [][(RecurringStep /\ response'.req.amount <= 0)
          => /\ response'.code # 202
             /\ UNCHANGED <<tasks, orders, payments>>]_vars

\* ---------------------------------------------------------------- C38
\* C38: with the simulator as gateway every order creation is given a gateway
\* order identifier no stored Order holds, so each of them stores its Order:
\* none fails on the uniqueness of razorpay_order_id.
C38_SimulatorOrdersAllStored ==
    [][(use_mock /\ response' # response /\ response'.op = "create_order")
          => /\ response'.code = 201
             /\ Len(orders') = Len(orders) + 1
             /\ \A o \in DOMAIN orders :
                   orders[o].razorpay_order_id # orders'[Len(orders')].razorpay_order_id]_vars

\* ---------------------------------------------------------------- C39
\* no Payment and no Order holds the entity identifier of the event
TargetMissing(event) ==
    /\ \A p \in DOMAIN payments :
          payments[p].razorpay_payment_id # event.payload.entity_id
    /\ \A o \in DOMAIN orders :
          orders[o].razorpay_order_id # event.payload.entity_id

\* C39: an execution of the apply task on an unprocessed event of a
\* recognized type whose entity identifier no Payment and no Order holds
\* changes no Payment and no Order, marks the event processed with no
\* processing error and returns; and no execution of the apply task of a
\* processed event changes a Payment or an Order, so the event is not applied
\* when the row is stored later.
C39_MissingTargetFinalized ==
    [][\A t \in DOMAIN tasks :
          /\ (/\ process_webhook_event(t, "none")
              /\ ~webhook_events[tasks[t].webhook_id].processed
              /\ webhook_events[tasks[t].webhook_id].event_type \in RecognizedEvents
              /\ TargetMissing(webhook_events[tasks[t].webhook_id]))
                 => /\ UNCHANGED <<payments, orders>>
                    /\ webhook_events' = [webhook_events EXCEPT
                            ![tasks[t].webhook_id].processed = TRUE]
                    /\ webhook_events'[tasks[t].webhook_id].processing_error = NoError
                    /\ tasks'[t].state = "success"
          /\ (ApplyStep(t) /\ webhook_events[tasks[t].webhook_id].processed)
                 => UNCHANGED <<payments, orders>>]_vars

\* an order.paid event was applied when no Order held its identifier; the
\* Order was stored later and is not paid
C39_OrderStoredAfterEvent ==
    \E t \in DOMAIN tasks, o \in DOMAIN orders :
        /\ tasks[t].kind = "webhook"
        /\ tasks[t].state = "success"
        /\ tasks[t].applied = 0
        /\ webhook_events[tasks[t].webhook_id].event_type = "order.paid"
        /\ webhook_events[tasks[t].webhook_id].processed
        /\ webhook_events[tasks[t].webhook_id].processing_error = NoError
        /\ orders[o].razorpay_order_id = webhook_events[tasks[t].webhook_id].payload.entity_id
        /\ orders[o].status = "created"

====
